---- MODULE Spec2Model ----
(***************************************************************************)
(* Payroll and payment settlement of workconnect-backend (src/payments).   *)
(*                                                                         *)
(* The database tables are sequences of rows (a row's primary key is its   *)
(* index); every handler, job and request is an action, split where the    *)
(* code waits for a provider's HTTP answer or re-reads the database, so    *)
(* that concurrent runs interleave as they do over a shared database.      *)
(*                                                                         *)
(* Name resolution: a name that the repository or the standard library    *)
(* defines (a model class, a gateway class, a task, time.sleep) is taken   *)
(* to resolve to that definition, whatever the import lines say.  A member *)
(* that no definition has                                                  *)
(* (TransactionStatus.COMPLETED, the field EmployerInvoice.transaction)    *)
(* fails as Python and Django fail: AttributeError, FieldError.            *)
(***************************************************************************)
EXTENDS Integers, Sequences, FiniteSets, TLC

\* ------------------------------------------------------------------ bounds
NumContracts == 2
NumPayers == 1

Contracts == 1..NumContracts
\* The contracts whose employers pay, are called back and are overridden by
\* the administrator in the collection specification.
Payers == 1..NumPayers

\* ------------------------------------------------------------- optionals
None == <<>>
Some(x) == <<x>>
IsSet(o) == o # <<>>
Val(o) == o[1]

\* ------------------------------------------------- enumerations (models.py)
InvoiceStatus ==
    [PENDING |-> "pending", PAID |-> "paid", OVERDUE |-> "overdue",
     CANCELLED |-> "cancelled"]

PaymentStatus ==
    [PENDING |-> "pending", PROCESSING |-> "processing",
     COMPLETED |-> "completed", FAILED |-> "failed", REFUNDED |-> "refunded"]

TransactionStatus ==
    [INITIATED |-> "initiated", PENDING |-> "pending",
     SUCCESSFUL |-> "successful", FAILED |-> "failed",
     CANCELLED |-> "cancelled"]

TransactionType ==
    [EMPLOYER_PAYMENT |-> "employer_payment",
     WORKER_DISBURSEMENT |-> "worker_disbursement", REFUND |-> "refund"]

PaymentMethodType ==
    {"mobile_money_mtn", "mobile_money_airtel", "bank_transfer", "cash_pickup"}

\* The persistent fields of EmployerInvoice: what a queryset can filter on.
EmployerInvoiceFields ==
    {"id", "invoice_number", "payroll_cycle", "contract", "employer",
     "worker_salary_amount", "service_fee_amount", "additional_fees",
     "total_amount", "status", "due_date", "paid_date", "payment_method",
     "transaction_reference", "invoice_pdf_url", "created_at", "updated_at"}

\* ------------------------------------------------------------ references
\* f"INV-{year}-{month:02d}-{contract.id.hex[:8].upper()}": one per contract
\* and month; the model holds one month.
invoice_number(c) == <<"INV", c>>
\* f"PAY-{year}-{month:02d}-{contract.id.hex[:8].upper()}"
payment_reference(c) == <<"PAY", c>>
\* The id Airtel gives a payment in its answer (data.transaction.id).
airtel_id(ref) == <<"AIR", ref[2]>>

\* ------------------------------------------------------------- contracts
\* Contract.worker_salary_amount, in units of the currency.
worker_salary_amount(c) == 4 * c

\* ---------------------------------------------------------- FeeCalculator
\* A ServiceFeeConfig row: fee_type, fixed_amount, percentage, tier_config
\* (bands [min, max, fee]), minimum_fee, maximum_fee; optional fields are
\* None or Some(v).
FixedConfig(amount, lo, hi) ==
    [fee_type |-> "fixed_amount", fixed_amount |-> amount, percentage |-> None,
     tier_config |-> <<>>, minimum_fee |-> lo, maximum_fee |-> hi]

PercentageConfig(pct, lo, hi) ==
    [fee_type |-> "percentage", fixed_amount |-> None, percentage |-> pct,
     tier_config |-> <<>>, minimum_fee |-> lo, maximum_fee |-> hi]

TieredConfig(tiers, lo, hi) ==
    [fee_type |-> "tiered", fixed_amount |-> None, percentage |-> None,
     tier_config |-> tiers, minimum_fee |-> lo, maximum_fee |-> hi]

\* What a call ends in: the value returned (none: the value is None) or the
\* exception raised.
Returned(v) == [raised |-> "", value |-> v, none |-> FALSE]
ReturnedNone == [raised |-> "", value |-> 0, none |-> TRUE]
Raised(exc) == [raised |-> exc, value |-> 0, none |-> FALSE]

\* Python's truthiness of an optional integer: None and 0 are falsy.
Truthy(o) == IsSet(o) /\ Val(o) # 0

\* int(x): truncation toward zero of the quotient num / den, den > 0.
TruncDiv(num, den) == IF num >= 0 THEN num \div den ELSE -((-num) \div den)

\* A scan that keeps the last band containing the salary.
TierScanLast(tier_config, salary, k) ==
    LET hits == {j \in k..Len(tier_config) :
                   tier_config[j].min <= salary /\ salary <= tier_config[j].max}
    IN  IF hits = {} THEN 0 ELSE CHOOSE j \in hits : \A i \in hits : i <= j

\* The loop over the bands from band k on: the first band whose range
\* contains the salary, 0 when the loop ends without one.
RECURSIVE TierScan(_, _, _)
TierScan(tier_config, salary, k) ==
    IF k > Len(tier_config) THEN 0
    ELSE IF tier_config[k].min <= salary /\ salary <= tier_config[k].max THEN k
    ELSE TierScan(tier_config, salary, k + 1)

calculate_tiered_fee(tier_config, salary) ==
    LET k == TierScan(tier_config, salary, 1) IN
    IF k # 0 THEN Returned(tier_config[k].fee)
    ELSE IF Len(tier_config) = 0 THEN Raised("IndexError")
    ELSE Returned(tier_config[Len(tier_config)].fee)

\* The limits of lines 42-45, applied to a raw fee.
ApplyLimits(config, fee) ==
    LET f1 == IF Truthy(config.minimum_fee) /\ fee < Val(config.minimum_fee)
              THEN Val(config.minimum_fee) ELSE fee
    IN  IF Truthy(config.maximum_fee) /\ f1 > Val(config.maximum_fee)
        THEN Val(config.maximum_fee) ELSE f1

\* configs: the rows of the category with is_active and effective_from <=
\* today.  objects.get raises DoesNotExist on none (caught: the default fee)
\* and MultipleObjectsReturned on more than one (not caught).  A fixed fee of
\* None is compared with a limit that is set (TypeError) or returned as it is.
calculate_service_fee(configs, worker_salary) ==
    IF configs = {} THEN Returned(TruncDiv(worker_salary * 25, 100))
    ELSE IF Cardinality(configs) > 1 THEN Raised("MultipleObjectsReturned")
    ELSE LET config == CHOOSE x \in configs : TRUE
             raw == IF config.fee_type = "fixed_amount"
                    THEN (IF IsSet(config.fixed_amount)
                          THEN Returned(Val(config.fixed_amount))
                          ELSE IF Truthy(config.minimum_fee) \/ Truthy(config.maximum_fee)
                          THEN Raised("TypeError")
                          ELSE ReturnedNone)
                    ELSE IF config.fee_type = "percentage"
                    THEN (IF IsSet(config.percentage)
                          THEN Returned(TruncDiv(worker_salary * Val(config.percentage), 100))
                          ELSE Raised("TypeError"))
                    ELSE IF config.fee_type = "tiered"
                    THEN calculate_tiered_fee(config.tier_config, worker_salary)
                    ELSE Raised("UnboundLocalError")
         IN  IF raw.raised # "" \/ raw.none THEN raw
             ELSE Returned(ApplyLimits(config, raw.value))

\* ------------------------------- FeeCalculator of contracts/services
\* The floor of the default fee, line 55.
default_minimum_fee == 100000

Max(a, b) == IF a >= b THEN a ELSE b

\* _calculate_tiered_fee: no bands is a fee of 0; otherwise the scan, then
\* the last band.  (The bands here have min, max and fee, so the defaults of
\* tier.get and the except branch are not taken.)
contracts_calculate_tiered_fee(tier_config, salary) ==
    LET k == TierScan(tier_config, salary, 1) IN
    IF Len(tier_config) = 0 THEN Returned(0)
    ELSE IF k # 0 THEN Returned(tier_config[k].fee)
    ELSE Returned(tier_config[Len(tier_config)].fee)

\* calculate_service_fee of contracts/services/fee_calculator.py: a missing
\* amount or percentage is a fee of 0, an unknown fee_type leaves fee = 0,
\* and the default fee is not less than default_minimum_fee.
contracts_calculate_service_fee(configs, worker_salary) ==
    IF configs = {}
    THEN Returned(Max(TruncDiv(worker_salary * 25, 100), default_minimum_fee))
    ELSE IF Cardinality(configs) > 1 THEN Raised("MultipleObjectsReturned")
    ELSE LET config == CHOOSE x \in configs : TRUE
             raw == IF config.fee_type = "fixed_amount"
                    THEN (IF Truthy(config.fixed_amount)
                          THEN Returned(Val(config.fixed_amount)) ELSE Returned(0))
                    ELSE IF config.fee_type = "percentage"
                    THEN (IF Truthy(config.percentage)
                          THEN Returned(TruncDiv(worker_salary * Val(config.percentage), 100))
                          ELSE Returned(0))
                    ELSE IF config.fee_type = "tiered"
                    THEN contracts_calculate_tiered_fee(config.tier_config, worker_salary)
                    ELSE Returned(0)
         IN  Returned(ApplyLimits(config, raw.value))

\* The fee policies a category has when the monthly job reads them.
JobConfigSets ==
    { {},
      {FixedConfig(Some(3), None, None), PercentageConfig(Some(25), None, None)} }

\* --------------------------------------------------------------- tables
NoCycle ==
    [exists |-> FALSE, total_contracts |-> 0, total_worker_salaries |-> 0,
     total_service_fees |-> 0, total_revenue |-> 0,
     invoices_generated |-> FALSE, payments_processed |-> FALSE,
     cycle_closed |-> FALSE]

\* PayrollCycle.objects.get_or_create(month, year, defaults = zero totals)
NewCycle == [NoCycle EXCEPT !.exists = TRUE]

\* EmployerInvoice.objects.create(...): status defaults to PENDING and the
\* payment details to NULL.
NewInvoice(c, fee) ==
    [invoice_number |-> invoice_number(c), contract |-> c,
     worker_salary_amount |-> worker_salary_amount(c),
     service_fee_amount |-> fee,
     total_amount |-> worker_salary_amount(c) + fee,
     status |-> InvoiceStatus.PENDING, paid_date |-> FALSE,
     payment_method |-> "", transaction_reference |-> ""]

\* PaymentGateway._create_transaction_record: status INITIATED; the foreign
\* keys invoice and worker_payment are never passed, so they stay NULL (0).
NewTransaction(transaction_type, reference, internal_reference, name) ==
    [transaction_type |-> transaction_type, external_reference |-> reference,
     internal_reference |-> internal_reference, payment_provider |-> name,
     status |-> TransactionStatus.INITIATED, invoice |-> 0, worker_payment |-> 0]

\* WorkerPayment.objects.create(...) of disburse_worker_salaries.
NewWorkerPayment(c, inv, method_type) ==
    [payment_reference |-> payment_reference(c), contract |-> c, invoice |-> inv,
     payment_method |-> method_type, status |-> PaymentStatus.PENDING,
     failure_reason |-> "", retry_count |-> 0]

\* queryset.first() under the models' ordering (newest first): of the keys
\* of the rows a filter selects, the newest; 0 when there is none.
First(keys) ==
    IF keys = {} THEN 0 ELSE CHOOSE k \in keys : \A j \in keys : j <= k

\* --------------------------------------------------------------- gateways
Gateways == {"mtn", "airtel", "flutterwave"}

GatewayName(gw) ==
    IF gw = "mtn" THEN "MTN Mobile Money"
    ELSE IF gw = "airtel" THEN "Airtel Money" ELSE "Flutterwave"

\* What a provider call can end in: the token handshake or the request
\* raising, or an HTTP status code.
HttpOutcomes == {"exception", "200", "202", "500"}

\* The status codes initiate_payment and disburse_payment take as accepted.
AcceptedCodes(gw) == IF gw = "mtn" THEN {"200", "202"} ELSE {"200"}

InternalReference(gw, reference) ==
    IF gw = "airtel" THEN airtel_id(reference) ELSE reference

\* The unique index on PaymentTransaction.external_reference.
ReferenceTaken(T, reference) ==
    \E k \in DOMAIN T : T[k].external_reference = reference

\* _create_transaction_record as the gateways call it: the row is appended,
\* or the unique index raises IntegrityError.
create_transaction_record(T, transaction_type, reference, internal_reference, name) ==
    IF ReferenceTaken(T, reference)
    THEN [raised |-> "IntegrityError", txns |-> T, transaction |-> 0]
    ELSE [raised |-> "",
          txns |-> Append(T, NewTransaction(transaction_type, reference,
                                            internal_reference, name)),
          transaction |-> Len(T) + 1]

\* The part of a gateway method after the provider has answered: on an
\* accepted code the row is created and success returned; every other
\* answer, and every exception (the IntegrityError too), is returned as
\* {"success": False, "error": ...}.
GatewayCall(T, gw, transaction_type, reference, outcome) ==
    IF outcome \in AcceptedCodes(gw)
    THEN LET r == create_transaction_record(T, transaction_type, reference,
                      InternalReference(gw, reference), GatewayName(gw))
         IN  IF r.raised # ""
             THEN [success |-> FALSE, error |-> r.raised, txns |-> T, transaction |-> 0]
             ELSE [success |-> TRUE, error |-> "", txns |-> r.txns,
                   transaction |-> r.transaction]
    ELSE [success |-> FALSE,
          error |-> IF outcome = "exception" THEN "exception" ELSE "API Error",
          txns |-> T, transaction |-> 0]

initiate_payment(T, gw, reference, outcome) ==
    GatewayCall(T, gw, TransactionType.EMPLOYER_PAYMENT, reference, outcome)

disburse_payment(T, gw, reference, outcome) ==
    GatewayCall(T, gw, TransactionType.WORKER_DISBURSEMENT, reference, outcome)

\* ------------------------------------------------------- PaymentWorkflow
\* A phone number, by the prefix detect_provider looks at.
Phones == {"+25677", "+25676", "+25670", "+25671", "+25675"}

detect_provider(phone) ==
    IF phone \in {"+25677", "+25676"} THEN "mtn"
    ELSE IF phone \in {"+25670", "+25671"} THEN "airtel"
    ELSE "unknown"

\* The gateway process_employer_payment calls, "" when it raises ValueError.
CollectionGateway(provider, hasEmail) ==
    IF provider = "mtn" THEN "mtn"
    ELSE IF provider = "airtel" THEN "airtel"
    ELSE IF provider = "unknown" /\ hasEmail THEN "flutterwave"
    ELSE ""

\* ------------------------------------------------------- webhook receiver
Endpoints == {"mtn", "airtel", "flutterwave"}

\* The status words the three handlers test for.
RawStatuses ==
    {"SUCCESSFUL", "FAILED", "TS", "TF", "successful", "failed"}

\* The identifiers a callback can carry: the references this system gave
\* and the ids a provider made up.
CollectionIds ==
    {invoice_number(c) : c \in Payers} \cup {airtel_id(invoice_number(1))}

\* A request body: malformed JSON, or the identifier and status it carries
\* (financialTransactionId / transaction.id / tx_ref, and status).
NoId == <<"", 0>>
Bodies(ids) ==
    {[malformed |-> TRUE, id |-> NoId, status |-> ""]}
    \cup [malformed : {FALSE}, id : ids, status : RawStatuses]

\* The database as a handler sees it.
Database(T, I, P, Q) == [txns |-> T, invoices |-> I, payments |-> P, queue |-> Q]

\* The success branch of a handler, from
\*   transaction.status = PaymentTransaction.TransactionStatus.COMPLETED
\* on: TransactionStatus has no member COMPLETED, and the invoice lookup
\* EmployerInvoice.objects.get(transaction = transaction) names no field.
\* Nothing has been saved when either raises.
SuccessBranchApplied(db, t) ==
    LET i == First({k \in DOMAIN db.invoices :
                      db.invoices[k].invoice_number = db.txns[t].external_reference})
        T == [db.txns EXCEPT ![t].status = TransactionStatus.SUCCESSFUL]
    IN  IF i = 0
        THEN [raised |-> "", db |-> [db EXCEPT !.txns = T]]
        ELSE [raised |-> "",
              db |-> [db EXCEPT !.txns = T,
                                !.invoices[i].status = InvoiceStatus.PAID,
                                !.invoices[i].paid_date = TRUE,
                                !.queue = Append(db.queue, i)]]

SuccessBranch(db, t) ==
    IF "COMPLETED" \notin DOMAIN TransactionStatus
    THEN [raised |-> "AttributeError", db |-> db]
    ELSE [raised |-> IF "transaction" \notin EmployerInvoiceFields
                     THEN "FieldError" ELSE "DoesNotExist",
          db |-> db]

\* transaction.status = FAILED; transaction.save()
FailedBranch(db, t) ==
    [db EXCEPT !.txns[t].status = TransactionStatus.FAILED]

\* The handler after the transaction lookup: t is the row found (0: none),
\* success and failed the provider's two status words.
ApplyEvent(db, t, status, success, failed) ==
    IF t = 0 THEN [code |-> 200, db |-> db]
    ELSE IF status = success
    THEN LET r == SuccessBranch(db, t) IN
         IF r.raised # "" THEN [code |-> 500, db |-> db]
         ELSE [code |-> 200, db |-> r.db]
    ELSE IF status = failed THEN [code |-> 200, db |-> FailedBranch(db, t)]
    ELSE [code |-> 200, db |-> db]

ByExternalReference(db, id) ==
    First({k \in DOMAIN db.txns : db.txns[k].external_reference = id})

ByInternalReference(db, id) ==
    First({k \in DOMAIN db.txns : db.txns[k].internal_reference = id})

\* is_valid is True in both branches of the DEBUG test.
mtn_webhook(signatureValid, body, db) ==
    LET is_valid == TRUE IN
    IF ~is_valid THEN [code |-> 403, db |-> db]
    ELSE IF body.malformed THEN [code |-> 400, db |-> db]
    ELSE LET t1 == ByExternalReference(db, body.id)
             t == IF t1 # 0 THEN t1 ELSE ByInternalReference(db, body.id)
         IN  ApplyEvent(db, t, body.status, "SUCCESSFUL", "FAILED")

\* No signature is looked at.
airtel_webhook(signatureValid, body, db) ==
    IF body.malformed THEN [code |-> 400, db |-> db]
    ELSE ApplyEvent(db, ByExternalReference(db, body.id), body.status, "TS", "TF")

\* signature != settings.FLUTTERWAVE_WEBHOOK_HASH -> 403
flutterwave_webhook(signatureValid, body, db) ==
    IF ~signatureValid THEN [code |-> 403, db |-> db]
    ELSE IF body.malformed THEN [code |-> 400, db |-> db]
    ELSE ApplyEvent(db, ByExternalReference(db, body.id), body.status,
                    "successful", "failed")

WebhookHandler(endpoint, signatureValid, body, db) ==
    IF endpoint = "mtn" THEN mtn_webhook(signatureValid, body, db)
    ELSE IF endpoint = "airtel" THEN airtel_webhook(signatureValid, body, db)
    ELSE flutterwave_webhook(signatureValid, body, db)

\* ---------------------------------------------------------------- state
GenRuns == {"g1", "g2"}
PayRequests == {"p1", "p2"}
DisRuns == {"d1", "d2"}
Calls == {"c1", "c2"}
PollRuns == {"q1"}
Hooks == {"h1", "h2"}

VARIABLES
    day,        \* date.today().day
    cycle,      \* the PayrollCycle row of the month
    invoices,   \* employer_invoices
    txns,       \* payment_transactions
    payments,   \* worker_payments
    queue,      \* schedule_worker_payment tasks enqueued (invoice ids)
    gen,        \* the runs of generate_monthly_invoices
    pay,        \* the requests to EmployerInvoiceViewSet.pay
    last,       \* the last task to return or call to raise, and the result
    returned,   \* references whose initiate_payment call has returned
    dis,        \* the runs of disburse_worker_salaries
    call,       \* the direct calls of PaymentWorkflow.disburse_worker_salary
    poll,       \* the runs of poll_payment_status
    hook,       \* the webhook requests being handled
    quote       \* a fee asked for: the salary, the configs, the answers

vars ==
    <<day, cycle, invoices, txns, payments, queue, gen, pay, last, returned,
      dis, call, poll, hook, quote>>

\* A run of generate_monthly_invoices that has not started: the contracts
\* left to handle, the cycle object in memory, the count of its result.
IdleGen == [pc |-> "idle", todo |-> <<>>, cycle |-> NoCycle, invoices_created |-> 0]

\* A pay request that has not begun: the invoice object the view read, the
\* provider detected, the gateway called.
IdlePay == [pc |-> "idle", invoice |-> 0, row |-> None, provider |-> "", gateway |-> ""]

\* A run of disburse_worker_salaries that has not started: the invoices left
\* to handle, the cycle object read, the payment being disbursed, the counts.
IdleDis ==
    [pc |-> "idle", todo |-> <<>>, cycle |-> NoCycle, method |-> "", payment |-> 0,
     row |-> None, payments_processed |-> 0, failed_payments |-> 0]

\* A call that has not been made: the payment it is for, the object it
\* holds, whether the provider accepted its request.
NoCall == [pc |-> "idle", payment |-> 0, row |-> None, accepted |-> FALSE]

\* A run of poll_payment_status that has not started: its two arguments and
\* the number of passes of its loop made so far.
IdlePoll == [pc |-> "idle", transaction_id |-> NoId, provider |-> "", attempt |-> 0]

\* A webhook request that has not arrived: the endpoint and the status word
\* of its body, the key of the transaction found and the object as read.
NoHook == [pc |-> "idle", endpoint |-> "", status |-> "", transaction |-> 0, row |-> None]

\* No fee has been asked for.  Unasked: the calculator has not been called.
Unasked == [raised |-> "unasked", value |-> 0, none |-> FALSE]
NoQuote == [salary |-> 0, configs |-> {}, fee |-> Unasked, contract_fee |-> Unasked]

\* What a task returned: its status or the exception it raised, and the two
\* counts of its result (invoices_created; payments_processed and
\* failed_payments).
TaskReturn(op, result, done, failed) ==
    [op |-> op, result |-> result, done |-> done, failed |-> failed]

\* The database before the first payroll cycle, and no run or request begun.
Start ==
    /\ day = 15
    /\ cycle = NoCycle
    /\ invoices = <<>>
    /\ txns = <<>>
    /\ payments = <<>>
    /\ queue = <<>>
    /\ gen = [g \in GenRuns |-> IdleGen]
    /\ pay = [p \in PayRequests |-> IdlePay]
    /\ last = TaskReturn("", "", 0, 0)
    /\ returned = {}
    /\ dis = [d \in DisRuns |-> IdleDis]
    /\ call = [d \in Calls |-> NoCall]
    /\ poll = [q \in PollRuns |-> IdlePoll]
    /\ hook = [h \in Hooks |-> NoHook]

Init == Start /\ quote = NoQuote

\* ------------------------------------------- generate_monthly_invoices
RECURSIVE Ascending(_)
Ascending(S) ==
    IF S = {} THEN <<>>
    ELSE LET m == CHOOSE x \in S : \A y \in S : x <= y
         IN  <<m>> \o Ascending(S \ {m})

\* Contract.objects.filter(status = 'active', start_date__lte = today)
active_contracts == Ascending(Contracts)

NextPc(todo) == IF todo = <<>> THEN "finish" ELSE "check"

\* The unique index on EmployerInvoice.invoice_number.
InvoiceNumberTaken(I, number) ==
    \E k \in DOMAIN I : I[k].invoice_number = number

\* Lines 203-224: the day test, get_or_create of the cycle, the contracts.
\* viaView: the run is started by PayrollCycleViewSet.generate_invoices,
\* which answers 404 without a cycle and 400 when invoices_generated is set.
GenStart(g, viaView) ==
    /\ gen[g].pc = "idle"
    /\ IF viaView /\ (~cycle.exists \/ cycle.invoices_generated)
       THEN UNCHANGED <<cycle, gen, last>>
       ELSE IF day # 15
       THEN /\ last' = TaskReturn("generate_monthly_invoices", "skipped", 0, 0)
            /\ UNCHANGED <<cycle, gen>>
       ELSE /\ cycle' = IF cycle.exists THEN cycle ELSE NewCycle
            /\ gen' = [gen EXCEPT ![g] =
                          [pc |-> NextPc(active_contracts), todo |-> active_contracts,
                           cycle |-> cycle', invoices_created |-> 0]]
            /\ UNCHANGED last
    /\ UNCHANGED <<day, invoices, txns, payments, queue, pay, returned, dis, call, poll, hook,
                   quote>>

\* Lines 229-236: an invoice of this contract and cycle exists -> continue.
GenCheck(g) ==
    /\ gen[g].pc = "check"
    /\ LET c == Head(gen[g].todo)
           existing_invoice == First({k \in DOMAIN invoices : invoices[k].contract = c})
       IN  gen' = [gen EXCEPT ![g] =
                      IF existing_invoice # 0
                      THEN [@ EXCEPT !.todo = Tail(@), !.pc = NextPc(Tail(gen[g].todo))]
                      ELSE [@ EXCEPT !.pc = "create"]]
    /\ UNCHANGED <<day, cycle, invoices, txns, payments, queue, pay, last, returned, dis, call, poll, hook,
                   quote>>

\* EmployerInvoice.objects.create on a table without the unique index.
create_invoice_unindexed(I, c, fee) ==
    [raised |-> "", invoices |-> Append(I, NewInvoice(c, fee))]

\* EmployerInvoice.objects.create under the unique index on invoice_number.
create_invoice(I, c, fee) ==
    IF InvoiceNumberTaken(I, invoice_number(c))
    THEN [raised |-> "IntegrityError", invoices |-> I]
    ELSE [raised |-> "", invoices |-> Append(I, NewInvoice(c, fee))]

\* Lines 238-265: the fee, the invoice row, the totals of the cycle object
\* in memory (a fee of None cannot be added to the salary: TypeError).  An
\* exception ends the run: nothing of the cycle is saved.
GenCreate(g) ==
    /\ gen[g].pc = "create"
    /\ \E configs \in JobConfigSets :
         LET c == Head(gen[g].todo)
             service_fee == calculate_service_fee(configs, worker_salary_amount(c))
             created == create_invoice(invoices, c, service_fee.value)
             raised == IF service_fee.raised # "" THEN service_fee.raised
                       ELSE IF service_fee.none THEN "TypeError"
                       ELSE created.raised
         IN  IF raised # ""
             THEN /\ gen' = [gen EXCEPT ![g] = IdleGen]
                  /\ last' = TaskReturn("generate_monthly_invoices", raised, 0, 0)
                  /\ UNCHANGED invoices
             ELSE /\ invoices' = created.invoices
                  /\ gen' = [gen EXCEPT ![g] =
                       [@ EXCEPT
                          !.cycle.total_contracts = @ + 1,
                          !.cycle.total_worker_salaries = @ + worker_salary_amount(c),
                          !.cycle.total_service_fees = @ + service_fee.value,
                          !.cycle.total_revenue = @ + service_fee.value,
                          !.invoices_created = @ + 1,
                          !.todo = Tail(@),
                          !.pc = NextPc(Tail(gen[g].todo))]]
                  /\ UNCHANGED last
    /\ UNCHANGED <<day, cycle, txns, payments, queue, pay, returned, dis, call, poll, hook,
                   quote>>

\* Lines 270-278: cycle.save() writes every field of the object in memory.
GenFinish(g) ==
    /\ gen[g].pc = "finish"
    /\ cycle' = [gen[g].cycle EXCEPT !.invoices_generated = TRUE]
    /\ gen' = [gen EXCEPT ![g] = IdleGen]
    /\ last' = TaskReturn("generate_monthly_invoices", "success",
                          gen[g].invoices_created, 0)
    /\ UNCHANGED <<day, invoices, txns, payments, queue, pay, returned, dis, call, poll, hook,
                   quote>>

\* --------------------------------------------------- invoice operations
\* EmployerInvoice.mark_as_paid(payment_method, transaction_reference)
mark_as_paid(row, payment_method, transaction_reference) ==
    [row EXCEPT !.status = InvoiceStatus.PAID, !.paid_date = TRUE,
                !.payment_method = payment_method,
                !.transaction_reference = transaction_reference]

MarkAsPaid(i) ==
    /\ i \in DOMAIN invoices
    /\ invoices' = [invoices EXCEPT ![i] = mark_as_paid(@, "manual", "RECON")]
    /\ UNCHANGED <<day, cycle, txns, payments, queue, gen, pay, last, returned, dis, call, poll, hook,
                   quote>>

\* The administrator cancels a pending invoice (the status field of the
\* admin change form).
CancelInvoice(i) ==
    /\ i \in DOMAIN invoices
    /\ invoices[i].status = InvoiceStatus.PENDING
    /\ invoices' = [invoices EXCEPT ![i].status = InvoiceStatus.CANCELLED]
    /\ UNCHANGED <<day, cycle, txns, payments, queue, gen, pay, last, returned, dis, call, poll, hook,
                   quote>>

\* --------------------------- EmployerInvoiceViewSet.pay and the workflow
\* views.py 45-54 and service.py 86-120: the invoice is read, the status
\* tested, the provider chosen from the employer's phone, the request sent.
\* A status other than PENDING is answered 400; without a gateway the
\* workflow raises ValueError("Unsupported provider for phone: ..."), which
\* nothing between it and the view catches.
PayBegin(p, i, phone, hasEmail) ==
    /\ pay[p].pc = "idle"
    /\ i \in DOMAIN invoices
    /\ LET provider == detect_provider(phone)
           gateway == CollectionGateway(provider, hasEmail)
       IN  IF invoices[i].status # InvoiceStatus.PENDING
           THEN UNCHANGED <<pay, last>>
           ELSE IF gateway = ""
           THEN /\ last' = TaskReturn("process_employer_payment", "ValueError", 0, 0)
                /\ UNCHANGED pay
           ELSE /\ pay' = [pay EXCEPT ![p] =
                            [pc |-> "http", invoice |-> i, row |-> Some(invoices[i]),
                             provider |-> provider, gateway |-> gateway]]
                /\ UNCHANGED last
    /\ UNCHANGED <<day, cycle, invoices, txns, payments, queue, gen, returned, dis, call,
                   poll, hook, quote>>

\* service.py 122-142: the provider has answered.  On success the invoice
\* object read by the view is saved with status PENDING and the provider as
\* payment method; invoice.transaction is an attribute of the object only.
PayFinish(p, outcome) ==
    /\ pay[p].pc = "http"
    /\ LET i == pay[p].invoice
           row == Val(pay[p].row)
           reference == row.invoice_number
           result == initiate_payment(txns, pay[p].gateway, reference, outcome)
       IN  /\ txns' = result.txns
           /\ invoices' =
                IF result.success
                THEN [invoices EXCEPT ![i] =
                        [row EXCEPT !.status = InvoiceStatus.PENDING,
                                    !.payment_method = pay[p].provider]]
                ELSE invoices
           /\ returned' = returned \cup {reference}
    /\ pay' = [pay EXCEPT ![p] = IdlePay]
    /\ UNCHANGED <<day, cycle, payments, queue, gen, last, dis, call, poll, hook, quote>>

\* ------------------------------------------------------ webhook delivery
Webhook(endpoint, signatureValid, body) ==
    /\ LET r == WebhookHandler(endpoint, signatureValid, body,
                               Database(txns, invoices, payments, queue))
       IN  /\ txns' = r.db.txns
           /\ invoices' = r.db.invoices
           /\ payments' = r.db.payments
           /\ queue' = r.db.queue
    /\ UNCHANGED <<day, cycle, gen, pay, last, returned, dis, call, poll, hook, quote>>

\* ------------------------------------------------------------- calendar
\* The month moves from the invoicing day to the disbursement period; a run
\* of the monthly job does not last that long.
AdvanceDay ==
    /\ day = 15
    /\ \A g \in GenRuns : gen[g].pc = "idle"
    /\ day' = 28
    /\ UNCHANGED <<cycle, invoices, txns, payments, queue, gen, pay, last, returned,
                   dis, call, poll, hook, quote>>

\* --------------------------------------------- disburse_worker_salaries
RECURSIVE Descending(_)
Descending(S) ==
    IF S = {} THEN <<>>
    ELSE LET m == CHOOSE x \in S : \A y \in S : y <= x
         IN  <<m>> \o Descending(S \ {m})

\* EmployerInvoice.objects.filter(payroll_cycle = cycle, status = PAID),
\* in the model's ordering (-created_at).
paid_invoices ==
    Descending({k \in DOMAIN invoices : invoices[k].status = InvoiceStatus.PAID})

NextDisPc(todo) == IF todo = <<>> THEN "finish" ELSE "check"

\* The unique index on WorkerPayment.payment_reference.
PaymentReferenceTaken(P, reference) ==
    \E k \in DOMAIN P : P[k].payment_reference = reference

\* WorkerPayment.objects.create on a table without the unique index.
create_worker_payment_unindexed(P, c, inv, method_type) ==
    [raised |-> "", payments |-> Append(P, NewWorkerPayment(c, inv, method_type))]

\* WorkerPayment.objects.create under the unique index.
create_worker_payment(P, c, inv, method_type) ==
    IF PaymentReferenceTaken(P, payment_reference(c))
    THEN [raised |-> "IntegrityError", payments |-> P]
    ELSE [raised |-> "", payments |-> Append(P, NewWorkerPayment(c, inv, method_type))]

\* What disburse_worker_salary does with a payment method before any answer
\* of a provider: "http" (the MTN request is sent), "raise" (AirtelMoney
\* inherits disburse_payment, which raises NotImplementedError), "success"
\* (bank transfer and cash pickup: a success result without a gateway).
DisburseRoute(method_type) ==
    IF method_type = "mobile_money_mtn" THEN "http"
    ELSE IF method_type = "mobile_money_airtel" THEN "raise"
    ELSE "success"

\* Lines 288-304.  viaView: the run is started by
\* PayrollCycleViewSet.disburse_salaries, which answers 404 without a cycle
\* and 400 when invoices_generated is not set.
DisStart(d, viaView) ==
    /\ dis[d].pc = "idle"
    /\ IF viaView /\ (~cycle.exists \/ ~cycle.invoices_generated)
       THEN UNCHANGED <<dis, last>>
       ELSE IF day < 28
       THEN /\ last' = TaskReturn("disburse_worker_salaries", "skipped", 0, 0)
            /\ UNCHANGED dis
       ELSE IF ~cycle.exists
       THEN /\ last' = TaskReturn("disburse_worker_salaries", "error", 0, 0)
            /\ UNCHANGED dis
       ELSE /\ dis' = [dis EXCEPT ![d] =
                         [IdleDis EXCEPT !.pc = NextDisPc(paid_invoices),
                                         !.todo = paid_invoices, !.cycle = cycle]]
            /\ UNCHANGED last
    /\ UNCHANGED <<day, cycle, invoices, txns, payments, queue, gen, pay, returned, call, poll, hook,
                   quote>>

\* Lines 315-333: the existing payment of the invoice, then the worker's
\* default payment method ("none": DoesNotExist).
DisCheck(d, method_type) ==
    /\ dis[d].pc = "check"
    /\ LET i == Head(dis[d].todo)
           existing_payment == First({k \in DOMAIN payments : payments[k].invoice = i})
           rest == Tail(dis[d].todo)
       IN  dis' = [dis EXCEPT ![d] =
                      IF existing_payment # 0
                      THEN [@ EXCEPT !.todo = rest, !.pc = NextDisPc(rest)]
                      ELSE IF method_type = "none"
                      THEN [@ EXCEPT !.todo = rest, !.pc = NextDisPc(rest),
                                     !.failed_payments = @ + 1]
                      ELSE [@ EXCEPT !.pc = "create", !.method = method_type]]
    /\ UNCHANGED <<day, cycle, invoices, txns, payments, queue, gen, pay, last,
                   returned, call, poll, hook, quote>>

\* Lines 336-355 and disburse_worker_salary up to the provider's answer.  An
\* exception (the unique index, NotImplementedError) ends the run: the
\* payment created stays, the cycle is not saved.
DisCreate(d) ==
    /\ dis[d].pc = "create"
    /\ LET i == Head(dis[d].todo)
           rest == Tail(dis[d].todo)
           created == create_worker_payment(payments, invoices[i].contract, i,
                                            dis[d].method)
           w == Len(created.payments)
           route == DisburseRoute(dis[d].method)
       IN  IF created.raised # ""
           THEN /\ dis' = [dis EXCEPT ![d] = IdleDis]
                /\ last' = TaskReturn("disburse_worker_salaries", created.raised,
                                      dis[d].payments_processed, dis[d].failed_payments)
                /\ UNCHANGED payments
           ELSE IF route = "raise"
           THEN /\ payments' = created.payments
                /\ dis' = [dis EXCEPT ![d] = IdleDis]
                /\ last' = TaskReturn("disburse_worker_salaries", "NotImplementedError",
                                      dis[d].payments_processed, dis[d].failed_payments)
           ELSE IF route = "success"
           THEN /\ payments' = [created.payments EXCEPT
                                   ![w].status = PaymentStatus.PROCESSING]
                /\ dis' = [dis EXCEPT ![d] =
                             [@ EXCEPT !.todo = rest, !.pc = NextDisPc(rest),
                                       !.payments_processed = @ + 1]]
                /\ UNCHANGED last
           ELSE /\ payments' = created.payments
                /\ dis' = [dis EXCEPT ![d] =
                             [@ EXCEPT !.pc = "http", !.payment = w,
                                       !.row = Some(created.payments[w])]]
                /\ UNCHANGED last
    /\ UNCHANGED <<day, cycle, invoices, txns, queue, gen, pay, returned, call, poll, hook,
                   quote>>

\* The provider has answered: the rest of disburse_worker_salary (lines
\* 185-195) and lines 357-363.  save() writes the payment object the run
\* holds; the failure branch sets status and failure_reason only.
DisReturn(d, outcome) ==
    /\ dis[d].pc = "http"
    /\ LET w == dis[d].payment
           row == Val(dis[d].row)
           rest == Tail(dis[d].todo)
           result == disburse_payment(txns, "mtn", row.payment_reference, outcome)
       IN  /\ txns' = result.txns
           /\ payments' = [payments EXCEPT ![w] =
                IF result.success
                THEN [row EXCEPT !.status = PaymentStatus.PROCESSING]
                ELSE [row EXCEPT !.status = PaymentStatus.FAILED,
                                 !.failure_reason = result.error]]
           /\ dis' = [dis EXCEPT ![d] =
                [@ EXCEPT !.todo = rest, !.pc = NextDisPc(rest),
                          !.payment = 0, !.row = None,
                          !.payments_processed = IF result.success THEN @ + 1 ELSE @,
                          !.failed_payments = IF result.success THEN @ ELSE @ + 1]]
    /\ UNCHANGED <<day, cycle, invoices, queue, gen, pay, last, returned, call, poll, hook,
                   quote>>

\* Lines 365-373: cycle.save() writes every field of the object read at the
\* start of the run.
DisFinish(d) ==
    /\ dis[d].pc = "finish"
    /\ cycle' = [dis[d].cycle EXCEPT !.payments_processed = TRUE]
    /\ dis' = [dis EXCEPT ![d] = IdleDis]
    /\ last' = TaskReturn("disburse_worker_salaries", "success",
                          dis[d].payments_processed, dis[d].failed_payments)
    /\ UNCHANGED <<day, invoices, txns, payments, queue, gen, pay, returned, call, poll, hook,
                   quote>>

\* ------------------------------------------------ schedule_worker_payment
\* The task reads the invoice and its payment and returns; it writes nothing.
ScheduleWorkerPayment(invoice_id) ==
    /\ last' = TaskReturn("schedule_worker_payment",
                  IF invoice_id \notin DOMAIN invoices THEN "error"
                  ELSE IF First({k \in DOMAIN payments :
                                   payments[k].invoice = invoice_id}) # 0
                  THEN "skipped" ELSE "scheduled", 0, 0)
    /\ UNCHANGED <<day, cycle, invoices, txns, payments, queue, gen, pay, returned,
                   dis, call, poll, hook, quote>>

\* --------------------------- PaymentWorkflow.disburse_worker_salary, called
\* on a payment that exists.  Each call is made once.
CallBegin(d, w) ==
    /\ call[d].pc = "idle"
    /\ w \in DOMAIN payments
    /\ LET route == DisburseRoute(payments[w].payment_method)
       IN  /\ call' = [call EXCEPT ![d] =
                 [pc |-> IF route = "http" THEN "http" ELSE "done",
                  payment |-> w, row |-> Some(payments[w]), accepted |-> FALSE]]
           /\ payments' = IF route = "success"
                          THEN [payments EXCEPT ![w].status = PaymentStatus.PROCESSING]
                          ELSE payments
    /\ UNCHANGED <<day, cycle, invoices, txns, queue, gen, pay, last, returned, dis, poll, hook,
                   quote>>

CallFinish(d, outcome) ==
    /\ call[d].pc = "http"
    /\ LET w == call[d].payment
           row == Val(call[d].row)
           result == disburse_payment(txns, "mtn", row.payment_reference, outcome)
       IN  /\ txns' = result.txns
           /\ payments' = IF result.success
                          THEN [payments EXCEPT ![w] =
                                  [row EXCEPT !.status = PaymentStatus.PROCESSING]]
                          ELSE payments
           /\ call' = [call EXCEPT ![d] =
                 [@ EXCEPT !.pc = "done", !.row = None,
                           !.accepted = (outcome \in AcceptedCodes("mtn"))]]
    /\ UNCHANGED <<day, cycle, invoices, queue, gen, pay, last, returned, dis, poll, hook,
                   quote>>

\* The database of the current state.
Db == Database(txns, invoices, payments, queue)

\* ----------------------------------------------------- poll_payment_status
\* service.py 381-382.
max_retries == 10
retry_delay == 30

\* The providers a run can be given; any other name is answered
\* {"success": False, "error": "Unknown provider"}.
PollProviders == {"mtn", "airtel", "flutterwave", "other"}

\* What the provider's status endpoint can answer: the request raising, an
\* HTTP error, or a 200 carrying the provider's status word.
StatusAnswers == {"exception", "500", "SUCCESSFUL", "FAILED", "PENDING", "TS", "TF"}

\* gateway.check_payment_status(transaction_id).  MTNMobileMoney maps the
\* provider's word (SUCCESSFUL, FAILED, anything else: pending); AirtelMoney
\* returns the provider's word as it is; FlutterwaveGateway does not define
\* the method and inherits the one that raises NotImplementedError.  An
\* HTTP error and an exception inside the method are the status "unknown".
check_payment_status(gw, answer) ==
    IF gw = "flutterwave" THEN [raised |-> "NotImplementedError", status |-> ""]
    ELSE IF answer \in {"exception", "500"} THEN [raised |-> "", status |-> "unknown"]
    ELSE IF gw = "airtel" THEN [raised |-> "", status |-> answer]
    ELSE [raised |-> "",
          status |-> IF answer = "SUCCESSFUL" THEN "successful"
                     ELSE IF answer = "FAILED" THEN "failed" ELSE "pending"]

\* One pass of the loop, lines 394-438, on the database db: the status is
\* checked and acted on.  returned is the status of the dictionary the
\* pass returns, "" when the loop goes on (after time.sleep(retry_delay)).
\* The success branch starts with TransactionStatus.COMPLETED as the
\* handlers' does; what it raises is caught by the except of line 435 and
\* the loop goes on.
poll_attempt(db, transaction_id, gw, answer) ==
    LET result == check_payment_status(gw, answer)
        t == ByExternalReference(db, transaction_id)
    IN  IF result.raised # "" THEN [returned |-> "", db |-> db]
        ELSE IF result.status = "successful"
        THEN IF t = 0 THEN [returned |-> "completed", db |-> db]
             ELSE LET r == SuccessBranch(db, t) IN
                  IF r.raised # "" THEN [returned |-> "", db |-> db]
                  ELSE [returned |-> "completed", db |-> r.db]
        ELSE IF result.status = "failed"
        THEN [returned |-> "failed",
              db |-> IF t = 0 THEN db ELSE FailedBranch(db, t)]
        ELSE [returned |-> "", db |-> db]

\* Lines 381-391: the gateway is chosen, the loop entered.
PollStart(q, transaction_id, provider) ==
    /\ poll[q].pc = "idle"
    /\ IF provider \notin Gateways
       THEN /\ last' = TaskReturn("poll_payment_status", "Unknown provider", 0, 0)
            /\ UNCHANGED poll
       ELSE /\ poll' = [poll EXCEPT ![q] =
                          [pc |-> "check", transaction_id |-> transaction_id,
                           provider |-> provider, attempt |-> 0]]
            /\ UNCHANGED last
    /\ UNCHANGED <<day, cycle, invoices, txns, payments, queue, gen, pay, returned,
                   dis, call, hook, quote>>

\* A pass of the loop and what follows it: the return of the pass, or the
\* sleep and the next pass, or after pass max_retries the return of line 440.
PollCheck(q, answer) ==
    /\ poll[q].pc = "check"
    /\ poll[q].attempt < max_retries
    /\ LET r == poll_attempt(Db, poll[q].transaction_id, poll[q].provider, answer)
           attempt == poll[q].attempt + 1
       IN  /\ txns' = r.db.txns
           /\ invoices' = r.db.invoices
           /\ queue' = r.db.queue
           /\ IF r.returned # ""
              THEN /\ poll' = [poll EXCEPT ![q] = IdlePoll]
                   /\ last' = TaskReturn("poll_payment_status", r.returned, attempt, 0)
              ELSE IF attempt = max_retries
              THEN /\ poll' = [poll EXCEPT ![q] = IdlePoll]
                   /\ last' = TaskReturn("poll_payment_status", "timeout", attempt, 0)
              ELSE /\ poll' = [poll EXCEPT ![q].attempt = attempt]
                   /\ UNCHANGED last
    /\ UNCHANGED <<day, cycle, payments, gen, pay, returned, dis, call, hook, quote>>

\* ------------------------------- a webhook request, as the server runs it
\* The handler up to the lookup of the transaction (0: the request is
\* answered 403 or 400, or no row is found).
FindTransaction(endpoint, signatureValid, body, db) ==
    IF endpoint = "flutterwave" /\ ~signatureValid THEN 0
    ELSE IF body.malformed THEN 0
    ELSE LET t1 == ByExternalReference(db, body.id)
         IN  IF endpoint = "mtn" /\ t1 = 0 THEN ByInternalReference(db, body.id) ELSE t1

SuccessWord(endpoint) ==
    IF endpoint = "mtn" THEN "SUCCESSFUL"
    ELSE IF endpoint = "airtel" THEN "TS" ELSE "successful"

FailedWord(endpoint) ==
    IF endpoint = "mtn" THEN "FAILED"
    ELSE IF endpoint = "airtel" THEN "TF" ELSE "failed"

\* The request arrives and the handler reads the transaction: the object it
\* holds from here on is the row as it is now.  Each request is made once.
HookRead(h, endpoint, signatureValid, body) ==
    /\ hook[h].pc = "idle"
    /\ LET t == FindTransaction(endpoint, signatureValid, body, Db)
       IN  hook' = [hook EXCEPT ![h] =
                      IF t = 0 THEN [NoHook EXCEPT !.pc = "done"]
                      ELSE [pc |-> "save", endpoint |-> endpoint, status |-> body.status,
                            transaction |-> t, row |-> Some(txns[t])]]
    /\ UNCHANGED <<day, cycle, invoices, txns, payments, queue, gen, pay, last,
                   returned, dis, call, poll, quote>>

\* The rest of the handler: the branch on the status word, then
\* transaction.save(), which writes every field of the object read.
HookSave(h) ==
    /\ hook[h].pc = "save"
    /\ LET t == hook[h].transaction
           held == [Db EXCEPT !.txns[t] = Val(hook[h].row)]
           r == ApplyEvent(held, t, hook[h].status, SuccessWord(hook[h].endpoint),
                           FailedWord(hook[h].endpoint))
       IN  IF r.code = 500
           THEN UNCHANGED <<txns, invoices, queue>>
           ELSE /\ txns' = r.db.txns
                /\ invoices' = r.db.invoices
                /\ queue' = r.db.queue
    /\ hook' = [hook EXCEPT ![h].pc = "done"]
    /\ UNCHANGED <<day, cycle, payments, gen, pay, last, returned, dis, call, poll, quote>>

\* ------------------------------------------------------ fee calculation
MaxSalary == 8
MaxFee == 3

Salaries == 0..MaxSalary
Fees == 0..MaxFee

\* minimum_fee and maximum_fee: NULL or an amount.
Limits == {None} \cup {Some(x) : x \in Fees}

\* The percentages a policy is given.
Percentages == {None, Some(0), Some(25), Some(50)}

\* The bands of a tiered policy, and the lists of at most two of them (in
\* any order, overlapping or with gaps: tier_config is free JSON).
Bands == [min : {0, 3}, max : {2, 6}, fee : {1, 2}]
TierLists == {<<>>} \cup {<<b>> : b \in Bands} \cup {<<b, c>> : b, c \in Bands}

\* The rows ServiceFeeConfig can hold for a category.
FeeConfigs ==
    {FixedConfig(a, lo, hi) : a \in Limits, lo \in Limits, hi \in Limits}
    \cup {PercentageConfig(pct, lo, hi) : pct \in Percentages, lo \in Limits, hi \in Limits}
    \cup {TieredConfig(tiers, lo, hi) : tiers \in TierLists, lo \in Limits, hi \in Limits}

\* The active configs of a category: none, one, or the two of JobConfigSets.
FeeConfigSets == {{config} : config \in FeeConfigs} \cup JobConfigSets

\* A category's policy and a salary, before any fee is asked for.
InitFee ==
    /\ Start
    /\ quote \in [salary : Salaries, configs : FeeConfigSets, fee : {Unasked},
                  contract_fee : {Unasked}]

\* ServiceFeeConfigViewSet.calculate and the monthly job: the calculator of
\* payments/service.py is asked.
CalculateFee ==
    /\ quote.fee = Unasked
    /\ quote' = [quote EXCEPT !.fee = calculate_service_fee(quote.configs, quote.salary)]
    /\ UNCHANGED <<day, cycle, invoices, txns, payments, queue, gen, pay, last, returned,
                   dis, call, poll, hook>>

\* ContractSerializer.create: the calculator of contracts/services is asked.
ContractFee ==
    /\ quote.contract_fee = Unasked
    /\ quote' = [quote EXCEPT !.contract_fee =
                   contracts_calculate_service_fee(quote.configs, quote.salary)]
    /\ UNCHANGED <<day, cycle, invoices, txns, payments, queue, gen, pay, last, returned,
                   dis, call, poll, hook>>

\* ------------------------------------------------------- specifications
\* Collection: a run of the monthly job, the pay requests, the webhooks and
\* the administrator.
NextCollect ==
    \/ \E viaView \in BOOLEAN : GenStart("g1", viaView)
    \/ GenCheck("g1") \/ GenCreate("g1") \/ GenFinish("g1")
    \/ \E i \in Payers : MarkAsPaid(i)
    \/ \E i \in Payers : CancelInvoice(i)
    \/ \E p \in PayRequests, i \in Payers, phone \in Phones, hasEmail \in BOOLEAN :
         PayBegin(p, i, phone, hasEmail)
    \/ \E p \in PayRequests, outcome \in HttpOutcomes : PayFinish(p, outcome)
    \/ \E endpoint \in Endpoints, signatureValid \in BOOLEAN, body \in Bodies(CollectionIds) :
         Webhook(endpoint, signatureValid, body)

SpecCollect == Init /\ [][NextCollect]_vars

\* Invoicing: concurrent runs of the monthly job.
NextGenerate ==
    \/ \E g \in GenRuns, viaView \in BOOLEAN : GenStart(g, viaView)
    \/ \E g \in GenRuns : GenCheck(g)
    \/ \E g \in GenRuns : GenCreate(g)
    \/ \E g \in GenRuns : GenFinish(g)
    \/ \E i \in Contracts : MarkAsPaid(i)
    \/ AdvanceDay

SpecGenerate == Init /\ [][NextGenerate]_vars

\* Payroll: the month from invoicing to disbursement, with concurrent runs
\* of the disbursement job.
NextPayroll ==
    \/ \E viaView \in BOOLEAN : GenStart("g1", viaView)
    \/ GenCheck("g1") \/ GenCreate("g1") \/ GenFinish("g1")
    \/ AdvanceDay
    \/ \E i \in Payers : MarkAsPaid(i)
    \/ \E d \in DisRuns, viaView \in BOOLEAN : DisStart(d, viaView)
    \/ \E d \in DisRuns, method_type \in {"none"} \cup PaymentMethodType :
         DisCheck(d, method_type)
    \/ \E d \in DisRuns : DisCreate(d)
    \/ \E d \in DisRuns, outcome \in HttpOutcomes : DisReturn(d, outcome)
    \/ \E d \in DisRuns : DisFinish(d)
    \/ \E invoice_id \in Contracts : ScheduleWorkerPayment(invoice_id)

SpecPayroll == Init /\ [][NextPayroll]_vars

\* Settlement: an employer's pay request beside a run of the disbursement
\* job.
NextSettle ==
    \/ GenStart("g1", FALSE) \/ GenCheck("g1") \/ GenCreate("g1") \/ GenFinish("g1")
    \/ AdvanceDay
    \/ \E i \in Payers : MarkAsPaid(i)
    \/ \E i \in Payers, phone \in Phones, hasEmail \in BOOLEAN :
         PayBegin("p1", i, phone, hasEmail)
    \/ \E outcome \in HttpOutcomes : PayFinish("p1", outcome)
    \/ DisStart("d1", FALSE)
    \/ \E method_type \in {"none"} \cup PaymentMethodType : DisCheck("d1", method_type)
    \/ DisCreate("d1")
    \/ \E outcome \in HttpOutcomes : DisReturn("d1", outcome)
    \/ DisFinish("d1")

SpecSettle == Init /\ [][NextSettle]_vars

\* Disbursement: a run of the job and two calls of disburse_worker_salary.
NextDisburse ==
    \/ GenStart("g1", FALSE) \/ GenCheck("g1") \/ GenCreate("g1") \/ GenFinish("g1")
    \/ AdvanceDay
    \/ \E i \in Payers : MarkAsPaid(i)
    \/ DisStart("d1", FALSE)
    \/ \E method_type \in {"none"} \cup PaymentMethodType : DisCheck("d1", method_type)
    \/ DisCreate("d1")
    \/ \E outcome \in HttpOutcomes : DisReturn("d1", outcome)
    \/ DisFinish("d1")
    \/ \E d \in Calls, w \in Contracts : CallBegin(d, w)
    \/ \E d \in Calls, outcome \in HttpOutcomes : CallFinish(d, outcome)

SpecDisburse == Init /\ [][NextDisburse]_vars

\* The identifiers of the disbursements: disburse_payment is given
\* reference = payment.payment_reference.
DisbursementIds == {payment_reference(c) : c \in Payers}

\* Confirmation: a run of the disbursement job, the webhooks and the poller
\* on the disbursements' references.
NextConfirm ==
    \/ GenStart("g1", FALSE) \/ GenCheck("g1") \/ GenCreate("g1") \/ GenFinish("g1")
    \/ AdvanceDay
    \/ \E i \in Payers : MarkAsPaid(i)
    \/ DisStart("d1", FALSE)
    \/ \E method_type \in {"none"} \cup PaymentMethodType : DisCheck("d1", method_type)
    \/ DisCreate("d1")
    \/ \E outcome \in HttpOutcomes : DisReturn("d1", outcome)
    \/ DisFinish("d1")
    \/ \E endpoint \in Endpoints, signatureValid \in BOOLEAN, body \in Bodies(DisbursementIds) :
         Webhook(endpoint, signatureValid, body)
    \/ \E q \in PollRuns, id \in DisbursementIds, provider \in PollProviders :
         PollStart(q, id, provider)
    \/ \E q \in PollRuns, answer \in StatusAnswers : PollCheck(q, answer)

SpecConfirm == Init /\ [][NextConfirm]_vars

\* Concurrent callbacks: an employer's pay request and two webhook requests
\* handled at the same time.
NextRace ==
    \/ GenStart("g1", FALSE) \/ GenCheck("g1") \/ GenCreate("g1") \/ GenFinish("g1")
    \/ \E i \in Payers, phone \in Phones, hasEmail \in BOOLEAN :
         PayBegin("p1", i, phone, hasEmail)
    \/ \E outcome \in HttpOutcomes : PayFinish("p1", outcome)
    \/ \E h \in Hooks, endpoint \in Endpoints, signatureValid \in BOOLEAN,
          body \in Bodies(CollectionIds) :
         HookRead(h, endpoint, signatureValid, body)
    \/ \E h \in Hooks : HookSave(h)

SpecRace == Init /\ [][NextRace]_vars

\* Fees: a policy, a salary and the two calculators.
NextFee == CalculateFee \/ ContractFee

SpecFee == InitFee /\ [][NextFee]_vars

\* ---------------------------------------------------------------- claims
\* The invoice a collection is made for: initiate_payment is given
\* reference = invoice.invoice_number (0: no such invoice).
LinkedInvoice(db, t) ==
    First({k \in DOMAIN db.invoices :
              db.invoices[k].invoice_number = db.txns[t].external_reference})

Event(id, status) == [malformed |-> FALSE, id |-> id, status |-> status]

\* C1: an invoice whose status is PAID or CANCELLED keeps that status in
\* every step of the system (pay requests, webhooks, mark_as_paid calls, the
\* monthly job, the administrator's cancellation).
C1_TerminalInvoiceStatus ==
    [][\A i \in DOMAIN invoices :
          invoices[i].status \in {InvoiceStatus.PAID, InvoiceStatus.CANCELLED}
              => invoices'[i].status = invoices[i].status]_vars

\* C2: in every reachable state, for every endpoint and every event body,
\* the database after the handler has processed the event twice equals the
\* database after it has processed it once (transactions, invoices, worker
\* payments and the enqueued scheduling tasks).
C2_WebhookIdempotent ==
    \A endpoint \in Endpoints, body \in Bodies(CollectionIds) :
        LET once == WebhookHandler(endpoint, TRUE, body, Db).db
            twice == WebhookHandler(endpoint, TRUE, body, once).db
        IN  twice = once

\* A failure event has been processed (a transaction is FAILED), and the
\* same event delivered again finds the transaction and leaves the database
\* as it is.
C2_Witness ==
    \E t \in DOMAIN txns :
        /\ txns[t].status = TransactionStatus.FAILED
        /\ ByExternalReference(Db, txns[t].external_reference) = t
        /\ mtn_webhook(TRUE, Event(txns[t].external_reference, "FAILED"), Db)
               = [code |-> 200, db |-> Db]

\* C3: no two transactions share an external_reference, and a call of
\* initiate_payment with a reference that an earlier call was made with is
\* rejected (success = False) and leaves the ledger unchanged, whatever the
\* gateway and the provider's answer.
C3_SecondCallRejected ==
    /\ \A a, b \in DOMAIN txns :
          a # b => txns[a].external_reference # txns[b].external_reference
    /\ \A reference \in returned, gw \in Gateways, outcome \in HttpOutcomes :
          LET second == initiate_payment(txns, gw, reference, outcome)
          IN  ~second.success /\ second.txns = txns

\* C9: at each of the three endpoints a callback whose signature is invalid
\* is answered 403 and changes nothing in the database.
C9_InvalidSignatureRejected ==
    \A endpoint \in Endpoints, body \in Bodies(CollectionIds) :
        WebhookHandler(endpoint, FALSE, body, Db) = [code |-> 403, db |-> Db]

\* C10: for every collection transaction whose invoice is PENDING, a verified
\* callback that reports success for it ends with the transaction
\* SUCCESSFUL, the invoice PAID with paid_date set, and the scheduling task
\* of that invoice enqueued.
C10_SuccessMarksInvoicePaid ==
    \A endpoint \in Endpoints, t \in DOMAIN txns :
        LET i == LinkedInvoice(Db, t)
            after == WebhookHandler(endpoint, TRUE,
                         Event(txns[t].external_reference, SuccessWord(endpoint)), Db).db
        IN  (/\ txns[t].transaction_type = TransactionType.EMPLOYER_PAYMENT
             /\ i # 0
             /\ invoices[i].status = InvoiceStatus.PENDING)
            => /\ after.txns[t].status = TransactionStatus.SUCCESSFUL
               /\ after.invoices[i].status = InvoiceStatus.PAID
               /\ after.invoices[i].paid_date
               /\ \E k \in DOMAIN after.queue : after.queue[k] = i

\* The disbursement rows of the ledger under a payment reference.
DisbursementRows(reference) ==
    {t \in DOMAIN txns :
        /\ txns[t].transaction_type = TransactionType.WORKER_DISBURSEMENT
        /\ txns[t].external_reference = reference}

\* C4: once two calls of disburse_worker_salary on the same worker payment
\* have both returned, the ledger holds exactly one disbursement row for the
\* payment's reference, and the provider has not accepted both requests.
C4_ExactlyOneDisbursement ==
    \A a, b \in Calls :
        (/\ a # b
         /\ call[a].pc = "done" /\ call[b].pc = "done"
         /\ call[a].payment = call[b].payment)
        => /\ Cardinality(DisbursementRows(
                  payments[call[a].payment].payment_reference)) = 1
           /\ ~(call[a].accepted /\ call[b].accepted)

\* C5: every worker payment belongs to an invoice whose status is PAID, and
\* a run of the disbursement job that is about to create the payment of an
\* invoice which is not PAID creates nothing.
C5_PaymentOnlyForPaidInvoice ==
    /\ [](\A w \in DOMAIN payments :
             invoices[payments[w].invoice].status = InvoiceStatus.PAID)
    /\ [][\A d \in DisRuns :
             (/\ dis[d].pc = "create"
              /\ dis'[d] # dis[d]
              /\ invoices[Head(dis[d].todo)].status # InvoiceStatus.PAID)
             => payments' = payments]_vars

\* The running totals of a payroll cycle.
Totals(c) ==
    <<c.total_contracts, c.total_worker_salaries, c.total_service_fees,
      c.total_revenue>>

\* C6: no two worker payments belong to the same invoice, and no step of a
\* run of the disbursement job changes the running totals of the cycle.
C6_OnePaymentPerInvoice ==
    /\ [](\A a, b \in DOMAIN payments :
             a # b => payments[a].invoice # payments[b].invoice)
    /\ [][dis' # dis => Totals(cycle') = Totals(cycle)]_vars

\* Two runs of the job met on one invoice: one created the payment and set
\* payments_processed, the other ran into the unique index; the totals are
\* those the monthly job saved.
C6_Witness ==
    /\ last.op = "disburse_worker_salaries"
    /\ last.result = "IntegrityError"
    /\ Len(payments) = 1
    /\ cycle.payments_processed
    /\ cycle.total_contracts = NumContracts

\* C7: no two invoices belong to the same contract (the model holds one
\* payroll cycle).
C7_OneInvoicePerContract ==
    \A a, b \in DOMAIN invoices :
        a # b => invoices[a].contract # invoices[b].contract

\* Two runs of the monthly job met on one contract: one of them ran into the
\* unique index, and every contract has its invoice.
C7_Witness ==
    /\ last.op = "generate_monthly_invoices"
    /\ last.result = "IntegrityError"
    /\ Len(invoices) = NumContracts

\* C8: payments_processed is set only if invoices_generated is, and
\* cycle_closed only if payments_processed is.
C8_FlagsMoveForward ==
    /\ cycle.payments_processed => cycle.invoices_generated
    /\ cycle.cycle_closed => cycle.payments_processed

\* The disbursement transactions of a payment: disburse_payment is given
\* reference = payment.payment_reference.
DisbursementOf(w) ==
    {t \in DOMAIN txns :
       /\ txns[t].transaction_type = TransactionType.WORKER_DISBURSEMENT
       /\ txns[t].external_reference = payments[w].payment_reference}

\* C11: a WorkerPayment in PROCESSING is COMPLETED once a webhook or a pass
\* of the poller has handled the provider's confirmation of its disbursement
\* transaction, and FAILED once one of them has handled the provider's
\* report that the disbursement failed.
C11_ConfirmedDisbursementSettles ==
    \A w \in DOMAIN payments : \A t \in DisbursementOf(w) :
      payments[w].status = PaymentStatus.PROCESSING =>
        LET id == txns[t].external_reference IN
        /\ \A endpoint \in Endpoints :
             /\ WebhookHandler(endpoint, TRUE, Event(id, SuccessWord(endpoint)), Db)
                  .db.payments[w].status = PaymentStatus.COMPLETED
             /\ WebhookHandler(endpoint, TRUE, Event(id, FailedWord(endpoint)), Db)
                  .db.payments[w].status = PaymentStatus.FAILED
        /\ poll_attempt(Db, id, "mtn", "SUCCESSFUL").db.payments[w].status
             = PaymentStatus.COMPLETED
        /\ poll_attempt(Db, id, "mtn", "FAILED").db.payments[w].status
             = PaymentStatus.FAILED

\* C12: a transaction whose status is SUCCESSFUL or FAILED keeps that status
\* in every step of the system, whatever a webhook handler or the poller
\* does afterwards.
C12_TerminalTransactionImmutable ==
    [][\A t \in DOMAIN txns :
         txns[t].status \in {TransactionStatus.SUCCESSFUL, TransactionStatus.FAILED}
           => txns'[t].status = txns[t].status]_vars

\* The row a handler leaves when it runs alone on the row it finds: the
\* handler of request h, run from its lookup to its save on the row given.
Handled(h, row) ==
    LET t == hook[h].transaction
        r == ApplyEvent([Db EXCEPT !.txns[t] = row], t, hook[h].status,
                        SuccessWord(hook[h].endpoint), FailedWord(hook[h].endpoint))
    IN  r.db.txns[t]

\* C13: when two webhook requests for the same transaction have both been
\* handled, however their steps interleaved, the transaction is as if one
\* handler had run from start to end and then the other, in one of the two
\* orders.
C13_CallbacksSerialized ==
    LET a == hook["h1"]
        b == hook["h2"]
    IN  (a.pc = "done" /\ b.pc = "done" /\ a.transaction # 0
           /\ a.transaction = b.transaction)
          => txns[a.transaction] \in
               {Handled("h2", Handled("h1", Val(a.row))),
                Handled("h1", Handled("h2", Val(b.row)))}

\* C14: a run of poll_payment_status makes at most max_retries status
\* checks; the pass in which the check returns successful or failed is its
\* last one, and after a pass whose check raised, failed to answer or
\* returned pending the run sleeps and goes on to the next pass (or, after
\* pass max_retries, returns).
C14_PollerBoundedAndStops ==
    [][\A q \in PollRuns :
         /\ poll[q].attempt <= max_retries
         /\ \A answer \in StatusAnswers :
              PollCheck(q, answer) =>
                LET result == check_payment_status(poll[q].provider, answer)
                IN  IF result.raised = "" /\ result.status \in {"successful", "failed"}
                    THEN poll'[q].pc = "idle"
                    ELSE \/ poll'[q].pc = "check" /\ poll'[q].attempt = poll[q].attempt + 1
                         \/ poll'[q].pc = "idle" /\ poll[q].attempt + 1 = max_retries]_vars

\* C15: the step in which a run of the poller gives up after max_retries
\* passes leaves the transaction it polled as it is, in status PENDING unless
\* a callback has settled it, and leaves the invoices as they are.
C15_ExhaustedPollerLeavesPending ==
    [][\A q \in PollRuns :
         (/\ poll[q].pc = "check"
          /\ poll'[q].pc = "idle"
          /\ last' = TaskReturn("poll_payment_status", "timeout", max_retries, 0))
           => LET t == ByExternalReference(Db, poll[q].transaction_id)
              IN  /\ invoices' = invoices
                  /\ t # 0 =>
                       /\ txns'[t] = txns[t]
                       /\ txns[t].status \notin {TransactionStatus.SUCCESSFUL,
                                                  TransactionStatus.FAILED}
                            => txns'[t].status = TransactionStatus.PENDING]_vars

\* C16: a pay request for a pending invoice of an employer whose phone has
\* neither mobile-money prefix and who has no email ends with
\* process_employer_payment returning an error result to its caller, no
\* transaction created and the invoice as it was.
C16_NoMethodIsReturnedAsError ==
    [][\A p \in PayRequests, i \in DOMAIN invoices, phone \in Phones :
         (/\ detect_provider(phone) = "unknown"
          /\ invoices[i].status = InvoiceStatus.PENDING
          /\ PayBegin(p, i, phone, FALSE))
           => /\ last' = TaskReturn("process_employer_payment", "error", 0, 0)
              /\ txns' = txns
              /\ invoices' = invoices]_vars

\* The answers that have been given for the fee asked.
Answers == {quote.fee, quote.contract_fee} \ {Unasked}

\* C17: for a category with one active config, each calculator returns a
\* fee that is not negative, and that lies between minimum_fee and
\* maximum_fee when the config has both.
C17_FeeWithinLimits ==
    \A result \in Answers : \A config \in quote.configs :
      quote.configs = {config} =>
        /\ result.raised = "" /\ ~result.none
        /\ result.value >= 0
        /\ (IsSet(config.minimum_fee) /\ IsSet(config.maximum_fee))
             => /\ Val(config.minimum_fee) <= result.value
                /\ result.value <= Val(config.maximum_fee)

\* C18: for a tiered config without limits and with at least one band, each
\* calculator returns the fee of the first band of the list whose range
\* [min, max] contains the salary, and the fee of the last band when the
\* salary is above the max of every band.
C18_TieredFirstBand ==
    \A result \in Answers : \A config \in quote.configs :
      (/\ quote.configs = {config}
       /\ config.fee_type = "tiered"
       /\ config.tier_config # <<>>
       /\ config.minimum_fee = None /\ config.maximum_fee = None)
        => LET tiers == config.tier_config
               inside == {k \in DOMAIN tiers :
                            tiers[k].min <= quote.salary /\ quote.salary <= tiers[k].max}
           IN  /\ \A k \in inside :
                    (\A j \in inside : k <= j) => result = Returned(tiers[k].fee)
               /\ (\A k \in DOMAIN tiers : quote.salary > tiers[k].max)
                    => result = Returned(tiers[Len(tiers)].fee)

\* Both calculators have answered for a list of two bands that both contain
\* the salary and carry different fees, and for a salary above every band.
C18_Witness ==
    /\ quote.fee # Unasked /\ quote.contract_fee # Unasked
    /\ \E config \in quote.configs :
         /\ quote.configs = {config}
         /\ config.fee_type = "tiered"
         /\ config.minimum_fee = None /\ config.maximum_fee = None
         /\ Len(config.tier_config) = 2
         /\ config.tier_config[1].fee # config.tier_config[2].fee
         /\ \A k \in 1..2 : /\ config.tier_config[k].min <= quote.salary
                             /\ quote.salary <= config.tier_config[k].max

\* C19: for a category without an active config each calculator returns
\* floor(salary * 0.25), whatever the salary: no minimum and no maximum is
\* applied to it.
C19_DefaultFee ==
    \A result \in Answers :
      quote.configs = {} => result = Returned((quote.salary * 25) \div 100)

\* C20: in the step in which the provider's answer to a disbursement is
\* handled, a failed call leaves the WorkerPayment FAILED with a
\* failure_reason and retry_count one higher, and a successful call leaves
\* it PROCESSING with retry_count as it was.
C20_DisbursementOutcomeRecorded ==
    [][\A d \in DisRuns, outcome \in HttpOutcomes :
         DisReturn(d, outcome) =>
           LET w == dis[d].payment
               result == disburse_payment(txns, "mtn", payments[w].payment_reference,
                                          outcome)
           IN  IF result.success
               THEN /\ payments'[w].status = PaymentStatus.PROCESSING
                    /\ payments'[w].retry_count = payments[w].retry_count
               ELSE /\ payments'[w].status = PaymentStatus.FAILED
                    /\ payments'[w].failure_reason # ""
                    /\ payments'[w].retry_count = payments[w].retry_count + 1]_vars

\* C21: a run of the disbursement job that comes to an invoice whose
\* WorkerPayment is FAILED attempts that payment again: the invoice is not
\* passed over, so the payment can go back to PROCESSING.
C21_FailedPaymentIsRetried ==
    [][\A d \in DisRuns :
         (dis[d].pc = "check" /\ dis'[d] # dis[d])
           => LET i == Head(dis[d].todo)
                  w == First({k \in DOMAIN payments : payments[k].invoice = i})
              IN  (w # 0 /\ payments[w].status = PaymentStatus.FAILED)
                    => dis'[d].todo = dis[d].todo]_vars

\* C22: an invoice whose status is not PAID has no paid_date, no
\* payment_method and no transaction_reference.
C22_PaymentDetailsOnlyWhenPaid ==
    \A i \in DOMAIN invoices :
      invoices[i].status # InvoiceStatus.PAID
        => /\ invoices[i].paid_date = FALSE
           /\ invoices[i].payment_method = ""
           /\ invoices[i].transaction_reference = ""

\* C23: a run of disburse_worker_salaries that has started ends only by
\* returning its result after the last PAID invoice of the cycle: no failure
\* of one payment (provider error, no default payout method, unsupported
\* method) ends the run before that.
C23_BatchSurvivesFailure ==
    [][\A d \in DisRuns :
         (dis[d].pc # "idle" /\ dis'[d].pc = "idle")
           => /\ dis[d].pc = "finish"
              /\ last' = TaskReturn("disburse_worker_salaries", "success",
                                    dis[d].payments_processed, dis[d].failed_payments)]_vars

\* C24: in every pass of the poller in which the provider answers with a
\* status word, check_payment_status of the adapter returns successful,
\* failed or pending, and it returns successful (failed) for the word by
\* which that provider reports a settled (failed) payment.
C24_CommonStatusVocabulary ==
    [][\A q \in PollRuns, answer \in StatusAnswers \ {"exception", "500"} :
         PollCheck(q, answer) =>
           LET gw == poll[q].provider
               result == check_payment_status(gw, answer)
           IN  /\ result.raised = ""
               /\ result.status \in {"successful", "failed", "pending"}
               /\ answer = SuccessWord(gw) => result.status = "successful"
               /\ answer = FailedWord(gw) => result.status = "failed"]_vars

\* C25: the step in which initiate_payment or disburse_payment returns after
\* the provider has answered (with any HTTP status) adds exactly one
\* transaction, whose external_reference is the reference of the call.
C25_OneTransactionPerCall ==
    [][/\ \A p \in PayRequests, outcome \in HttpOutcomes \ {"exception"} :
            PayFinish(p, outcome)
              => /\ Len(txns') = Len(txns) + 1
                 /\ txns'[Len(txns')].external_reference = Val(pay[p].row).invoice_number
       /\ \A d \in DisRuns, outcome \in HttpOutcomes \ {"exception"} :
            DisReturn(d, outcome)
              => /\ Len(txns') = Len(txns) + 1
                 /\ txns'[Len(txns')].external_reference
                      = Val(dis[d].row).payment_reference]_vars

\* The sum of a field over the first k invoices.
RECURSIVE SumTo(_, _, _)
SumTo(I, field, k) == IF k = 0 THEN 0 ELSE I[k][field] + SumTo(I, field, k - 1)

\* C26: while no run of generate_monthly_invoices is in progress, the
\* cycle's totals are those of its invoices: their number, the sum of their
\* salaries, and the sum of their service fees (as fees and as revenue).
C26_TotalsMatchInvoices ==
    ((\A g \in GenRuns : gen[g].pc = "idle") /\ (cycle.exists \/ invoices # <<>>))
      => Totals(cycle) =
           <<Len(invoices),
             SumTo(invoices, "worker_salary_amount", Len(invoices)),
             SumTo(invoices, "service_fee_amount", Len(invoices)),
             SumTo(invoices, "service_fee_amount", Len(invoices))>>

\* In the database db every collection transaction made for an invoice is
\* SUCCESSFUL exactly when that invoice is PAID.
Settled(db) ==
    \A t \in DOMAIN db.txns :
      (/\ db.txns[t].transaction_type = TransactionType.EMPLOYER_PAYMENT
       /\ LinkedInvoice(db, t) # 0)
        => (db.txns[t].status = TransactionStatus.SUCCESSFUL
              <=> db.invoices[LinkedInvoice(db, t)].status = InvoiceStatus.PAID)

\* C27: whatever callback one of the three handlers has just handled, and
\* whatever status a pass of the poller has just read, the database it
\* leaves has every collection transaction SUCCESSFUL exactly when its
\* invoice is PAID.
C27_TransactionAndInvoiceAgree ==
    /\ \A endpoint \in Endpoints, signatureValid \in BOOLEAN,
          body \in Bodies(CollectionIds) :
         Settled(WebhookHandler(endpoint, signatureValid, body, Db).db)
    /\ \A id \in CollectionIds, gw \in Gateways, answer \in StatusAnswers :
         Settled(poll_attempt(Db, id, gw, answer).db)

C29_FailedCollectionRetried ==
    [][\A p \in DOMAIN pay, outcome \in AcceptedCodes("mtn") \cup AcceptedCodes("airtel")
                                         \cup AcceptedCodes("flutterwave") :
         (/\ PayFinish(p, outcome)
          /\ outcome \in AcceptedCodes(pay[p].gateway)
          /\ invoices[pay[p].invoice].status = InvoiceStatus.PENDING
          /\ \E t \in DOMAIN txns :
               /\ txns[t].external_reference = Val(pay[p].row).invoice_number
               /\ txns[t].status = TransactionStatus.FAILED)
           => Len(txns') = Len(txns) + 1]_vars

\* C30: when a run of disburse_worker_salaries sets payments_processed,
\* every invoice of the cycle that is PAID at that moment has a
\* WorkerPayment.
C30_ProcessedMeansEveryPaidInvoiceHasPayment ==
    [][\A d \in DisRuns :
         (dis[d].pc = "finish" /\ dis'[d].pc = "idle" /\ cycle'.payments_processed)
           => \A i \in DOMAIN invoices' :
                invoices'[i].status = InvoiceStatus.PAID
                  => \E w \in DOMAIN payments' : payments'[w].invoice = i]_vars

====
